---- MODULE Spec2Model ----
(***************************************************************************)
(* Squall-Core: the generic event dispatcher (squall::Dispatcher<T>, the   *)
(* Loop-based variant with the m_cleaning flag) and its watchers.          *)
(*                                                                         *)
(* The dispatcher is single threaded, but its operations call user code    *)
(* (the event handler, the on_free hook) which may call the dispatcher     *)
(* again.  The call chain is the variable `stack`; an operation that calls *)
(* no user code is one atomic action, an operation that does is one action *)
(* up to the call and one action from the return on.                       *)
(***************************************************************************)
EXTENDS Integers, Sequences, FiniteSets, TLC

(* ------------------------------------------------------------------ *)
(* Event codes (enum Event); the values are libev's EV_* masks.        *)
(* ------------------------------------------------------------------ *)
Read == 1
Write == 2
Timer == 256
Signal == 1024
Cleanup == 262144

(* ------------------------------------------------------------------ *)
(* Bounds of the model.                                                *)
(* ------------------------------------------------------------------ *)
\* Longest chain of nested user callbacks (handler / on_free / cleanup frames).
MaxDepth == 4
\* Longest watcher sequence of one target.
MaxWatchers == 3
\* The handles an EventLoop creates, and how deep its start() calls nest.
MaxHandles == 4
MaxStarts == 2

\* The targets: the addresses of the caller's target objects, the keys of the map.
TargetIds == {1, 2}
\* The addresses a target object can have (the demo passes three temporaries).
Addresses == {1, 2, 3}
\* The arguments the callers pass when the parameters are what is examined ...
Timeouts == {-2, 1, 2}
Filenos == {-2, 3, 4}
Masks == {0, Read}
Signums == {-2, 0, 2, 15}
\* ... and when the delivery and cleanup protocol is.
ProtoTimeouts == {1}
ProtoFilenos == {3}
ProtoMasks == {Read}
\* ... and when the payloads are.
PayloadFilenos == {3, 4}
PayloadSignums == {2, 15}

\* The null payload pointer, and a pointer to an int.
nullptr == <<>>
PtrTo(n) == <<n>>

(* ------------------------------------------------------------------ *)
(* Watchers (Watcher.hxx).                                             *)
(* ------------------------------------------------------------------ *)
\* A watcher is its libev struct: `active` is libev's own flag, set while the watcher
\* is registered with the loop; `misused` remembers that the watcher was registered
\* while registered or re-parameterised while registered, which libev forbids.
\* new TimerWatcher(on_event bound to &target, loop): ev_timer zero-initialised.
TimerWatcher(target) ==
    [kind |-> "Timer", owner |-> target, active |-> FALSE, after |-> 0, repeat |-> 0,
     misused |-> FALSE]

\* Faulty variant of IoWatcher: the closure is bound to a stale target address.
IoWatcher_stale(target) ==
    [kind |-> "Io", owner |-> 1, active |-> FALSE, fd |-> -1, events |-> 0,
     misused |-> FALSE]

\* new IoWatcher(on_event, loop): ev_io_set(&watcher, -1, 0).
IoWatcher(target) ==
    [kind |-> "Io", owner |-> target, active |-> FALSE, fd |-> -1, events |-> 0,
     misused |-> FALSE]

\* new SignalWatcher(on_event, loop): ev_signal_set(&watcher, -1).
SignalWatcher(target) ==
    [kind |-> "Signal", owner |-> target, active |-> FALSE, signum |-> -1,
     misused |-> FALSE]

\* GenericWatcher::is_active
is_active(w) == w.active

\* GenericWatcher::start_watching: ev_timer_start / ev_io_start / ev_signal_start.
start_watching(w) == [w EXCEPT !.active = TRUE, !.misused = @ \/ w.active]

\* GenericWatcher::stop_watching: ev_timer_stop / ev_io_stop / ev_signal_stop.
stop_watching(w) == [w EXCEPT !.active = FALSE]

\* GenericWatcher::start()
start(w) == IF ~is_active(w) THEN start_watching(w) ELSE w

\* Faulty variant of stop: the registration is flipped.
stop_toggle(w) == IF is_active(w) THEN stop_watching(w) ELSE start_watching(w)

\* GenericWatcher::stop()
stop(w) == IF is_active(w) THEN stop_watching(w) ELSE w

\* libev's precondition of ev_io_start (fd >= 0) and ev_signal_start (signum > 0):
\* an assertion in a debug build, undefined behaviour otherwise.
LibevRejects(w) ==
    \/ w.kind = "Io" /\ w.fd < 0
    \/ w.kind = "Signal" /\ w.signum <= 0

\* ev_timer_set / ev_io_set / ev_signal_set
ev_timer_set(w, after, repeat) ==
    [w EXCEPT !.after = after, !.repeat = repeat, !.misused = @ \/ w.active]
ev_io_set(w, fd, events) ==
    [w EXCEPT !.fd = fd, !.events = events, !.misused = @ \/ w.active]
ev_signal_set(w, signum) ==
    [w EXCEPT !.signum = signum, !.misused = @ \/ w.active]

\* Faulty variant of TimerWatcher_start: the watcher is not stopped first.
TimerWatcher_start_nostop(w, after, repeat) ==
    LET a == IF after < 0 THEN -1 ELSE after
        r == IF repeat < 0 THEN 0 ELSE repeat
        w2 == ev_timer_set(w, a, r)
    IN  IF a >= 0 THEN start_watching(w2) ELSE w2

\* TimerWatcher::start(after, repeat)
TimerWatcher_start(w, after, repeat) ==
    LET a == IF after < 0 THEN -1 ELSE after
        r == IF repeat < 0 THEN 0 ELSE repeat
        w1 == IF is_active(w) THEN stop(w) ELSE w
        w2 == ev_timer_set(w1, a, r)
    IN  IF a >= 0 THEN start_watching(w2) ELSE w2

\* IoWatcher::start(fileno, revents)
IoWatcher_start(w, fileno, revents) ==
    LET f == IF fileno < 0 THEN -1 ELSE fileno
        e == IF revents < 0 THEN 0 ELSE revents
        w1 == IF is_active(w) THEN stop(w) ELSE w
        w2 == ev_io_set(w1, f, e)
    IN  IF (f >= 0) /\ (e > 0) THEN start_watching(w2) ELSE w2

\* SignalWatcher::start(signum)
SignalWatcher_start(w, signum) ==
    LET s == IF signum < 0 THEN -1 ELSE signum
        w1 == IF is_active(w) THEN stop(w) ELSE w
        w2 == ev_signal_set(w1, s)
    IN  IF s >= 0 THEN start_watching(w2) ELSE w2

\* Faulty variant of wrapped_target: no watcher passes a payload.
wrapped_target_null(w) == nullptr

\* IoWatcher::wrapped_target / SignalWatcher::wrapped_target / GenericWatcher::trigger:
\* the payload handed to the dispatcher's handler.
wrapped_target(w) ==
    CASE w.kind = "Io" -> PtrTo(w.fd)
      [] w.kind = "Signal" -> PtrTo(w.signum)
      [] OTHER -> nullptr

\* The revents libev can report for an active watcher.
IoBits(m) == {b \in {Read, Write} : (m \div b) % 2 = 1}
Revents(w) ==
    CASE w.kind = "Timer" -> {Timer}
      [] w.kind = "Signal" -> {Signal}
      [] OTHER -> {r \in {Read, Write, Read + Write} : IoBits(r) \subseteq IoBits(w.events)}

(* ------------------------------------------------------------------ *)
(* The loop handle (Loop.hxx).                                         *)
(* ------------------------------------------------------------------ *)
\* ev_default_loop(EVFLAG_AUTO), called by the constructor of the static instance of
\* Loop::current(): the default loop is initialised (alive), ev_loop_destroy has been
\* called on it `destroys` times, and the static handle is live (current).  Every
\* other handle is a copy of that one: Loop(const Loop &) copies m_ptr.
ev_default_loop == [alive |-> TRUE, destroys |-> 0, current |-> TRUE]

\* libev: the handle's m_ptr is ev_default_loop_ptr, which ev_loop_destroy resets.
ev_is_default_loop(l) == l.alive

\* Loop::~Loop of any handle: if (ev_is_default_loop(m_ptr)) ev_loop_destroy(m_ptr).
Loop_dtor(l) ==
    IF ev_is_default_loop(l)
    THEN [l EXCEPT !.alive = FALSE, !.destroys = @ + 1]
    ELSE l

(* ------------------------------------------------------------------ *)
(* The registry operations of Dispatcher<T>, as functions of the       *)
(* registry `tg` (std::map<const T*, Watchers>).                       *)
(* ------------------------------------------------------------------ *)
\* Faulty variant of Erase: the key stays, with an empty sequence.
Erase_value_only(tg, target) == [x \in DOMAIN tg |-> IF x = target THEN <<>> ELSE tg[x]]

\* targets.erase(&target)
Erase(tg, target) == [x \in (DOMAIN tg) \ {target} |-> tg[x]]

\* targets.insert(make_pair(target, Watchers()))
Insert(tg, target) == [x \in (DOMAIN tg) \cup {target} |-> IF x = target THEN <<>> ELSE tg[x]]

\* Faulty variants of the approve lambdas: no timer is ever reused; only a
\* never-bound I/O watcher is.
approve_timer_never(w) == FALSE
approve_io_unbound(w, fileno) == w.kind = "Io" /\ (w.fd = -1)

\* The approve lambdas of watch_timer / watch_io / watch_signal.
approve_timer(w) == w.kind = "Timer"
approve_io(w, fileno) == w.kind = "Io" /\ ((w.fd = fileno) \/ (w.fd = -1))
approve_signal(w, signum) == w.kind = "Signal" /\ ((w.signum = signum) \/ (w.signum = -1))

\* The watchers a target holds (none when it has no entry).
WatchersOf(tg, target) ==
    IF target \in DOMAIN tg THEN {tg[target][i] : i \in 1..Len(tg[target])} ELSE {}

\* Faulty variant of FirstApproved: the last watcher the approve lambda accepts.
FirstApproved_last(ws, ok) ==
    IF \E i \in 1..Len(ws) : ws[i] \in ok
    THEN CHOOSE i \in 1..Len(ws) : ws[i] \in ok /\ \A j \in (i + 1)..Len(ws) : ws[j] \notin ok
    ELSE 0

\* The scan of setup_watching: index of the first watcher the approve lambda
\* accepts (ok: the watchers it accepts), 0 if none.
FirstApproved(ws, ok) ==
    IF \E i \in 1..Len(ws) : ws[i] \in ok
    THEN CHOOSE i \in 1..Len(ws) : ws[i] \in ok /\ \A j \in 1..(i - 1) : ws[j] \notin ok
    ELSE 0

\* Dispatcher::setup_watching<W>: the registry with the entry of `target` present and
\* holding the watcher to start, and the index of that watcher in the entry.
setup_watching(tg, target, ok, fresh) ==
    LET tg1 == IF target \in DOMAIN tg THEN tg ELSE Insert(tg, target)
        found == FirstApproved(tg1[target], ok)
    IN  IF found # 0
        THEN [tg |-> tg1, at |-> found]
        ELSE [tg |-> [tg1 EXCEPT ![target] = Append(@, fresh)], at |-> Len(tg1[target]) + 1]

\* The on_target_apply calls a watch_* call makes: one, in setup_watching, when the
\* entry is inserted and the hooks are configured.
on_apply_calls(tg, cleaning, present, target) ==
    IF ~cleaning /\ (target \notin DOMAIN tg) /\ present THEN 1 ELSE 0

\* Dispatcher::watch_timer: the registry it leaves and the value it returns.
watch_timer(tg, cleaning, target, timeout) ==
    IF ~cleaning
    THEN LET ok == {x \in WatchersOf(tg, target) : approve_timer(x)}
             s == setup_watching(tg, target, ok, TimerWatcher(target))
             w == TimerWatcher_start(s.tg[target][s.at], timeout, timeout)
         IN  [tg |-> [s.tg EXCEPT ![target][s.at] = w], ret |-> is_active(w)]
    ELSE [tg |-> tg, ret |-> FALSE]

\* Dispatcher::watch_io
watch_io(tg, cleaning, target, fileno, events) ==
    IF ~cleaning
    THEN LET ok == {x \in WatchersOf(tg, target) : approve_io(x, fileno)}
             s == setup_watching(tg, target, ok, IoWatcher(target))
             w == IoWatcher_start(s.tg[target][s.at], fileno, events)
         IN  [tg |-> [s.tg EXCEPT ![target][s.at] = w], ret |-> is_active(w)]
    ELSE [tg |-> tg, ret |-> FALSE]

\* Dispatcher::watch_signal
watch_signal(tg, cleaning, target, signum) ==
    IF ~cleaning
    THEN LET ok == {x \in WatchersOf(tg, target) : approve_signal(x, signum)}
             s == setup_watching(tg, target, ok, SignalWatcher(target))
             w == SignalWatcher_start(s.tg[target][s.at], signum)
         IN  [tg |-> [s.tg EXCEPT ![target][s.at] = w], ret |-> is_active(w)]
    ELSE [tg |-> tg, ret |-> FALSE]

\* Faulty variant of enable_watching: the watchers of every target are started.
enable_watching_all(tg, cleaning, target) ==
    IF ~cleaning /\ target \in DOMAIN tg
    THEN [u \in DOMAIN tg |-> [i \in 1..Len(tg[u]) |-> start(tg[u][i])]]
    ELSE tg

\* Dispatcher::enable_watching
enable_watching(tg, cleaning, target) ==
    IF ~cleaning /\ target \in DOMAIN tg
    THEN [tg EXCEPT ![target] = [i \in 1..Len(@) |-> start(@[i])]]
    ELSE tg

\* Dispatcher::disable_watching
disable_watching(tg, target) ==
    IF target \in DOMAIN tg
    THEN [tg EXCEPT ![target] = [i \in 1..Len(@) |-> stop(@[i])]]
    ELSE tg

\* Faulty variant of release_watching: the entry is not erased.
release_keep(tg, target) == disable_watching(tg, target)

\* Faulty variant of release_watching: the sequence is cleared, the entry stays.
release_clear_only(tg, target) ==
    IF target \in DOMAIN tg THEN [tg EXCEPT ![target] = <<>>] ELSE tg

\* Dispatcher::release_watching, up to the on_target_free call: the watchers are
\* stopped, the sequence cleared and the entry erased.
release_watching(tg, target) ==
    IF target \in DOMAIN tg
    THEN Erase(disable_watching(tg, target), target)
    ELSE tg

\* The watchers release_watching destroys (found->second.clear()), as they are at
\* that moment.
release_dropped(tg, target) ==
    IF target \in DOMAIN tg
    THEN disable_watching(tg, target)[target]
    ELSE <<>>

\* Faulty variant of on_free_calls: the hook is called whether or not the target
\* was found.
on_free_always(tg, present, target) == IF present THEN 1 ELSE 0

\* The on_target_free call of release_watching: the number of calls it makes.
on_free_calls(tg, present, target) ==
    IF (target \in DOMAIN tg) /\ present THEN 1 ELSE 0

\* Faulty variant of handler_disable: only the first watcher is stopped.
handler_disable_first(tg, target) ==
    IF target \in DOMAIN tg
    THEN [tg EXCEPT ![target] = [i \in 1..Len(@) |-> IF i = 1 THEN stop(@[i]) ELSE @[i]]]
    ELSE tg

\* Faulty variant of handler_disable: nothing is stopped before the handler runs.
handler_disable_none(tg, target) == tg

\* Dispatcher::handler, line 1: disable_watching(*target).
handler_disable(tg, target) == disable_watching(tg, target)

\* Faulty variants of handler_rearm: the return value is ignored, one way or the other.
handler_rearm_never(tg, cleaning, target, ret) == tg
handler_rearm_always(tg, cleaning, target, ret) == enable_watching(tg, cleaning, target)

\* Dispatcher::handler, lines 2-3: if (on_target_event(...)) enable_watching(*target).
handler_rearm(tg, cleaning, target, ret) ==
    IF ret THEN enable_watching(tg, cleaning, target) ELSE tg

\* The snapshot loop of Dispatcher::cleanup: the keys in map order, and those of
\* them with an active watcher.
RECURSIVE KeysInOrder(_)
KeysInOrder(S) ==
    IF S = {} THEN <<>>
    ELSE LET m == CHOOSE x \in S : \A y \in S : x <= y
         IN  <<m>> \o KeysInOrder(S \ {m})

HasActive(ws) == \E i \in 1..Len(ws) : is_active(ws[i])

cleanup_all(tg) == KeysInOrder(DOMAIN tg)

\* Faulty variant of cleanup_active: every target counts as active.
cleanup_active_all(tg) == cleanup_all(tg)

cleanup_active(tg) == SelectSeq(cleanup_all(tg), LAMBDA t : HasActive(tg[t]))

(* ------------------------------------------------------------------ *)
(* The state.                                                          *)
(* ------------------------------------------------------------------ *)
(* ------------------------------------------------------------------ *)
(* The handles and the state of the Cython callback EventLoop.         *)
(* ------------------------------------------------------------------ *)
\* signal.SIGINT / SIGINT of <csignal>
SIGINT == 2

EvFilenos == {-1, 3}
EvSeconds == {-1, 0, 1}
EvSignums == {0, 10}

\* ReadyHandle / TimeoutHandle / SignalHandle as __cinit__ and __init__ leave them;
\* kind names the set of the EventLoop that records handles of the class.
ReadyHandle(fd, events) ==
    [kind |-> "readies", active |-> FALSE, sigint |-> FALSE, fd |-> fd, events |-> events]
TimeoutHandle(seconds) ==
    [kind |-> "timeouts", active |-> FALSE, sigint |-> FALSE, after |-> seconds, repeat |-> seconds]
SignalHandle(signum) ==
    [kind |-> "signals", active |-> FALSE, sigint |-> FALSE, signum |-> signum]

\* libev's preconditions of ev_io_start, ev_timer_start and ev_signal_start.
EvRejects(h) ==
    \/ h.kind = "readies" /\ h.fd < 0
    \/ h.kind = "timeouts" /\ h.repeat < 0
    \/ h.kind = "signals" /\ h.signum <= 0

\* ReadyHandle.start / TimeoutHandle.start / SignalHandle.start and .stop
Handle_start(h) == IF ~h.active THEN [h EXCEPT !.active = TRUE] ELSE h
Handle_stop(h) == IF h.active THEN [h EXCEPT !.active = FALSE] ELSE h

\* libev before it invokes the callback of a watcher: a timer without repeat is
\* stopped.
ev_invoke(h) ==
    IF h.kind = "timeouts" /\ h.repeat = 0 THEN [h EXCEPT !.active = FALSE] ELSE h

\* EventLoop.__cinit__
EventLoop ==
    [running |-> 0, readies |-> {}, timeouts |-> {}, signals |-> {},
     handles |-> <<>>, stack |-> <<>>, aborted |-> FALSE]

\* self._readies.add(handle) / self._timeouts.add / self._signals.add
Record(e, set, id) == [e EXCEPT ![set] = @ \cup {id}]

\* Faulty variant of cancel: the handle stays recorded.
cancel_keep(e, set, id) ==
    IF id \in e[set] THEN [e EXCEPT !.handles[id] = Handle_stop(@)] ELSE e

\* EventLoop.cancel_io / cancel_timer / cancel_signal
cancel(e, set, id) ==
    IF id \in e[set]
    THEN [e EXCEPT !.handles[id] = Handle_stop(@), ![set] = @ \ {id}]
    ELSE e

\* EventLoop.stop
EventLoop_stop(e) == IF e.running # 0 THEN [e EXCEPT !.running = 0] ELSE e

\* The finally block of EventLoop.start: every handle of the three sets is cancelled.
RECURSIVE cancel_each(_, _, _)
cancel_each(e, set, ids) ==
    IF ids = {} THEN e
    ELSE LET id == CHOOSE x \in ids : \A y \in ids : x <= y
         IN  cancel_each(cancel(e, set, id), set, ids \ {id})

finally(e) ==
    LET e0 == [e EXCEPT !.running = 0]
        e1 == cancel_each(e0, "readies", e0.readies)
        e2 == cancel_each(e1, "timeouts", e1.timeouts)
    IN  cancel_each(e2, "signals", e2.signals)

VARIABLES
    targets,            \* Dispatcher::targets: target -> sequence of watchers
    m_cleaning,         \* Dispatcher::m_cleaning
    on_target_present,  \* Dispatcher::on_target_present: the hooks are configured
    running,            \* control is inside Loop::start (ev_run)
    stop_req,           \* Loop::stop was called during this run (ev_break)
    stack,              \* the chain of calls that are waiting for user code to return
    aborted,            \* the process died on a libev assertion
    balance,            \* per target: on_apply calls minus on_free calls so far
    last,               \* the most recent call or return, with its arguments and result
    destroyed,          \* ~Dispatcher has run
    m_active,           \* python::Dispatcher::m_active
    exc_type,           \* python::Dispatcher::exc_type: the fault recorded by the binding
    loop,               \* the default ev_loop and the handle Loop::current()
    cleaned,            \* targets whose latest registration was sent a Cleanup event
    ev                  \* the Cython EventLoop object, its handles and its call chain

vars == <<targets, m_cleaning, on_target_present, running, stop_req, stack, aborted,
          balance, last, destroyed, m_active, exc_type, loop, cleaned, ev>>

\* The variables of the dispatcher, its loop and its binding.
dispatcher_vars == <<targets, m_cleaning, on_target_present, running, stop_req, stack, aborted,
                     balance, destroyed, m_active, exc_type, loop, cleaned>>

Top == stack[Len(stack)]
Pop == SubSeq(stack, 1, Len(stack) - 1)

\* User code is running: the main program outside Loop::start, an event handler
\* or an on_free hook.
InUser ==
    /\ ~aborted
    /\ ~destroyed
    /\ IF stack = <<>> THEN ~running ELSE Top.f \in {"handler", "on_free"}

\* Frames.  A handler frame remembers what its user code did to its own target.
HandlerFrame(t, revents, payload) ==
    [f |-> "handler", target |-> t, revents |-> revents, payload |-> payload,
     rearmed |-> FALSE, released |-> FALSE]
OnFreeFrame(t) == [f |-> "on_free", target |-> t]
\* python::Dispatcher::start between Loop::start and its return; faulted remembers
\* that on_event caught a fault of a handler this run of start dispatched.
StartFrame == [f |-> "start", faulted |-> FALSE]
\* A cleanup frame remembers the registry it was entered with (entry_all, the keys;
\* entry_active, those with an active watcher), the Cleanup events it has sent and
\* the targets released (freed) since it was entered, and who called
\* it (by: user code, the destructor, or the binding's start); gone holds the targets
\* still due a Cleanup event of this run that were released by their own handler,
\* which returned true, and have not been registered since; quiet holds the targets
\* still due a Cleanup event of this run whose handler has returned false since,
\* without arming the target, and for which neither watch_* nor enable_watching has
\* been called since.
CleanupFrame(all, active, tg) ==
    [f |-> "cleanup", by |-> "user", all |-> all, active |-> active,
     entry_all |-> DOMAIN tg,
     entry_active |-> {t \in DOMAIN tg : \E i \in 1..Len(tg[t]) : tg[t][i].active},
     sent |-> [t \in Addresses |-> 0],
     freed |-> {},
     gone |-> {},
     quiet |-> {},
     faulted |-> FALSE]

Note(stk, t, field) ==
    [i \in 1..Len(stk) |->
        IF stk[i].f = "handler" /\ stk[i].target = t
        THEN [stk[i] EXCEPT ![field] = TRUE] ELSE stk[i]]

\* The handler of t released t and returned true / t is registered again.
MarkGone(stk, t) ==
    [i \in 1..Len(stk) |->
        IF stk[i].f = "cleanup" /\ (\E j \in 1..Len(stk[i].active) : stk[i].active[j] = t)
        THEN [stk[i] EXCEPT !.gone = @ \cup {t}] ELSE stk[i]]
ClearGone(stk, t) ==
    [i \in 1..Len(stk) |->
        IF stk[i].f = "cleanup" THEN [stk[i] EXCEPT !.gone = @ \ {t}] ELSE stk[i]]
Gone == IF stack # <<>> /\ Top.f = "cleanup" THEN Top.gone ELSE {}

\* The handler of t returned false / watch_* or enable_watching is called for t.
MarkQuiet(stk, t) ==
    [i \in 1..Len(stk) |->
        IF stk[i].f = "cleanup" /\ (\E j \in 1..Len(stk[i].active) : stk[i].active[j] = t)
        THEN [stk[i] EXCEPT !.quiet = @ \cup {t}] ELSE stk[i]]
ClearQuiet(stk, t) ==
    [i \in 1..Len(stk) |->
        IF stk[i].f = "cleanup" THEN [stk[i] EXCEPT !.quiet = @ \ {t}] ELSE stk[i]]
Quiet == IF stack # <<>> /\ Top.f = "cleanup" THEN Top.quiet ELSE {}

AllInactive(tg, t) == \A i \in 1..Len(tg[t]) : ~is_active(tg[t][i])
AllActive(tg, t) == \A i \in 1..Len(tg[t]) : is_active(tg[t][i])

\* Python code is running: the main program or a callable called by on_event (the
\* hooks of the binding only change a reference count).
InPython == InUser /\ (IF stack = <<>> THEN TRUE ELSE Top.f = "handler")

\* Control is inside ev_run, between two callbacks.
AtLoop ==
    /\ ~aborted
    /\ IF stack = <<>> THEN running ELSE Top.f = "start"

Init ==
    /\ targets = <<>>
    /\ m_cleaning = FALSE
    /\ on_target_present \in BOOLEAN
    /\ running = FALSE
    /\ stop_req = FALSE
    /\ stack = <<>>
    /\ aborted = FALSE
    /\ balance = [t \in Addresses |-> 0]
    /\ last = [op |-> "init"]
    /\ destroyed = FALSE
    /\ m_active = FALSE
    /\ exc_type = nullptr
    /\ loop = ev_default_loop
    /\ cleaned = {}
    /\ ev = EventLoop

(* ------------------------------------------------------------------ *)
(* Calls made by user code.                                            *)
(* ------------------------------------------------------------------ *)
\* The common part of the three watch_* calls: r is what the call computes.
Watch(t, r, what) ==
    /\ InUser
    /\ t \in DOMAIN r.tg => Len(r.tg[t]) <= MaxWatchers
    /\ targets' = r.tg
    /\ balance' = [balance EXCEPT ![t] = @ + on_apply_calls(targets, m_cleaning, on_target_present, t)]
    /\ stack' = ClearQuiet(IF m_cleaning THEN stack ELSE ClearGone(Note(stack, t, "rearmed"), t), t)
    /\ last' = what @@ [target |-> t, ret |-> r.ret, cleaning |-> m_cleaning,
                         reused |-> (t \in DOMAIN targets /\ t \in DOMAIN r.tg
                                     /\ Len(r.tg[t]) = Len(targets[t]))]
    /\ cleaned' = IF ~m_cleaning /\ t \notin DOMAIN targets THEN cleaned \ {t} ELSE cleaned
    /\ UNCHANGED <<m_cleaning, on_target_present, ev, destroyed, loop, m_active, exc_type, running, stop_req, aborted>>

WatchTimer(t, timeout) ==
    Watch(t, watch_timer(targets, m_cleaning, t, timeout),
          [op |-> "watch_timer", timeout |-> timeout,
           was |-> IF t \in DOMAIN targets
                   THEN {targets[t][i].after : i \in {j \in 1..Len(targets[t]) : targets[t][j].kind = "Timer"}}
                   ELSE {}])

WatchIo(t, fileno, events) ==
    Watch(t, watch_io(targets, m_cleaning, t, fileno, events),
          [op |-> "watch_io", fileno |-> fileno, events |-> events,
           was |-> IF t \in DOMAIN targets
                   THEN {targets[t][i].fd : i \in {j \in 1..Len(targets[t]) : targets[t][j].kind = "Io"}}
                   ELSE {}])

WatchSignal(t, signum) ==
    Watch(t, watch_signal(targets, m_cleaning, t, signum),
          [op |-> "watch_signal", signum |-> signum,
           was |-> IF t \in DOMAIN targets
                   THEN {targets[t][i].signum : i \in {j \in 1..Len(targets[t]) : targets[t][j].kind = "Signal"}}
                   ELSE {}])

\* libev refuses to start one of the watchers enable_watching(t) would start.
WouldReject(t) ==
    /\ ~m_cleaning
    /\ t \in DOMAIN targets
    /\ \E i \in 1..Len(targets[t]) : ~is_active(targets[t][i]) /\ LibevRejects(targets[t][i])

EnableWatching(t) ==
    /\ InUser
    /\ targets' = enable_watching(targets, m_cleaning, t)
    /\ stack' = ClearQuiet(IF ~m_cleaning /\ t \in DOMAIN targets
                           THEN Note(stack, t, "rearmed") ELSE stack, t)
    /\ last' = [op |-> "enable_watching", target |-> t,
                ret |-> (~m_cleaning /\ t \in DOMAIN targets)]
    /\ UNCHANGED <<m_cleaning, on_target_present, ev, cleaned, destroyed, loop, m_active, exc_type, running, stop_req, aborted, balance>>

DisableWatching(t) ==
    /\ InUser
    /\ targets' = disable_watching(targets, t)
    /\ last' = [op |-> "disable_watching", target |-> t, ret |-> (t \in DOMAIN targets),
                cleaning |-> m_cleaning,
                again |-> (last.op = "disable_watching" /\ last.target = t)]
    /\ UNCHANGED <<m_cleaning, on_target_present, ev, cleaned, destroyed, loop, m_active, exc_type, running, stop_req, aborted, balance, stack>>

\* release_watching(t), called by `who` ("user" or "cleanup") with `stk` the stack
\* as the caller leaves it: up to the on_target_free call, or the whole call when no
\* hook is called.
Release(t, stk, who) ==
    LET n == on_free_calls(targets, on_target_present, t)
        stk1 == IF t \in DOMAIN targets
                THEN [i \in 1..Len(stk) |->
                         IF stk[i].f = "cleanup"
                         THEN [stk[i] EXCEPT !.freed = @ \cup {t}]
                         ELSE stk[i]]
                ELSE stk
    IN  /\ n > 0 => Len(stk) < MaxDepth
        /\ targets' = release_watching(targets, t)
        /\ balance' = [balance EXCEPT ![t] = @ - n]
        /\ stack' = IF n > 0 THEN Append(stk1, OnFreeFrame(t)) ELSE stk1
        /\ last' = [op |-> "release_watching", target |-> t, ret |-> (t \in DOMAIN targets),
                    by |-> who, hooks |-> n, cleaning |-> m_cleaning,
                    dropped |-> Len(release_dropped(targets, t)),
                    armed |-> Cardinality({i \in 1..Len(release_dropped(targets, t)) :
                                              release_dropped(targets, t)[i].active}),
                    prev |-> IF last.op = "release_watching" /\ last.target = t
                             THEN (IF last.ret THEN "hit" ELSE "miss")
                             ELSE "none"]
        /\ UNCHANGED <<m_cleaning, on_target_present, ev, cleaned, destroyed, loop, m_active, exc_type, running, stop_req, aborted>>

ReleaseWatching(t) ==
    /\ InUser
    /\ Release(t,
               IF stack # <<>> /\ Top.f = "handler" /\ Top.target = t /\ t \in DOMAIN targets
               THEN [stack EXCEPT ![Len(stack)].released = TRUE] ELSE stack,
               "user")

\* The on_free hook returns; release_watching returns true to its caller.
OnFreeReturn ==
    /\ ~aborted
    /\ stack # <<>>
    /\ Top.f = "on_free"
    /\ stack' = Pop
    /\ last' = [op |-> "on_free_return", target |-> Top.target]
    /\ UNCHANGED <<targets, m_cleaning, on_target_present, ev, cleaned, destroyed, loop, m_active, exc_type, running, stop_req, aborted, balance>>

(* ------------------------------------------------------------------ *)
(* The loop and event delivery.                                        *)
(* ------------------------------------------------------------------ *)
\* Loop::start from the main program.
LoopStart ==
    /\ ~aborted
    /\ ~destroyed
    /\ stack = <<>>
    /\ ~running
    /\ running' = TRUE
    /\ stop_req' = FALSE
    /\ last' = [op |-> "start"]
    /\ UNCHANGED <<targets, m_cleaning, on_target_present, ev, cleaned, destroyed, loop, m_active, exc_type, stack, aborted, balance>>

\* Loop::stop from a handler or hook.
LoopStop ==
    /\ InUser
    /\ running
    /\ ~stop_req
    /\ stop_req' = TRUE
    /\ last' = [op |-> "stop"]
    /\ UNCHANGED <<targets, m_cleaning, on_target_present, ev, cleaned, destroyed, loop, m_active, exc_type, running, stack, aborted, balance>>

\* ev_run returns: a break was requested or nothing is left to watch.
LoopReturn ==
    /\ ~aborted
    /\ stack = <<>>
    /\ running
    /\ stop_req \/ \A t \in DOMAIN targets : AllInactive(targets, t)
    /\ running' = FALSE
    /\ stop_req' = FALSE
    /\ last' = [op |-> "loop_return"]
    /\ UNCHANGED <<targets, m_cleaning, on_target_present, ev, cleaned, destroyed, loop, m_active, exc_type, stack, aborted, balance>>

\* Dispatcher::handler up to the on_target_event call; w is the watcher whose
\* callback made the call (a placeholder when cleanup() did).
CallHandler(t, key, revents, payload, stk, w) ==
    /\ targets' = handler_disable(targets, t)
    /\ stack' = Append(stk, HandlerFrame(t, revents, payload))
    /\ last' = [op |-> "handler", target |-> t, key |-> key, revents |-> revents,
                payload |-> payload, from |-> w, live |-> (t \in DOMAIN targets),
                after_gone |-> (t \in Gone),
                after_quiet |-> (t \in Quiet),
                recleaned |-> (revents = Cleanup /\ t \in cleaned),
                armed |-> IF t \in DOMAIN targets
                          THEN Cardinality({i \in 1..Len(targets[t]) : targets[t][i].active})
                          ELSE 0]
    /\ cleaned' = IF revents = Cleanup THEN cleaned \cup {t} ELSE cleaned
    /\ UNCHANGED <<m_cleaning, on_target_present, ev, destroyed, loop, m_active, exc_type, running, stop_req, aborted, balance>>

\* The loop invokes the callback of the active watcher k-th in the sequence of key,
\* which calls the on_event closure bound at the watcher's creation.
Fire(key, k, revents) ==
    /\ AtLoop
    /\ key \in DOMAIN targets
    /\ k \in 1..Len(targets[key])
    /\ is_active(targets[key][k])
    /\ revents \in Revents(targets[key][k])
    /\ CallHandler(targets[key][k].owner, key, revents, wrapped_target(targets[key][k]), stack,
                   targets[key][k])

\* The user handler returns ret, having called Loop::stop first when stopping is
\* true; Dispatcher::handler re-arms on true.
Return(ret, stopping) ==
    /\ ~aborted
    /\ stack # <<>>
    /\ Top.f = "handler"
    /\ stop_req' = (stop_req \/ stopping)
    /\ targets' = handler_rearm(targets, m_cleaning, Top.target, ret)
    /\ stack' = IF ret /\ Top.released /\ Top.target \notin DOMAIN targets
                THEN MarkGone(Pop, Top.target)
                ELSE IF ~ret /\ ~Top.rearmed THEN MarkQuiet(Pop, Top.target) ELSE Pop
    /\ last' = [op |-> "return", target |-> Top.target, ret |-> ret, revents |-> Top.revents,
                rearmed |-> Top.rearmed, released |-> Top.released, fault |-> FALSE]
    /\ UNCHANGED <<m_cleaning, on_target_present, ev, cleaned, destroyed, loop, m_active, exc_type, running, aborted, balance>>

\* The user handler returns ret.
HandlerReturn(ret) == Return(ret, FALSE)

\* A watch_signal(t, signum) that SignalWatcher::start accepts and libev refuses.
WouldRejectSignal(signum) ==
    /\ ~m_cleaning
    /\ signum >= 0
    /\ LibevRejects([SignalWatcher(1) EXCEPT !.signum = signum])

\* enable_watching reaches GenericWatcher::start(), or watch_signal reaches
\* SignalWatcher::start, on a watcher libev refuses: the build with assertions
\* aborts (the other build goes on as the actions above).  Nothing of the process
\* is left.
AssertAbort ==
    /\ ~aborted
    /\ \/ /\ \/ InUser /\ \E t \in TargetIds : WouldReject(t)
             \/ stack # <<>> /\ Top.f = "handler" /\ WouldReject(Top.target)
          /\ last' = [op |-> "abort", call |-> "enable_watching"]
       \/ /\ InUser /\ \E s \in Signums : WouldRejectSignal(s)
          /\ last' = [op |-> "abort", call |-> "watch_signal"]
    /\ aborted' = TRUE
    /\ targets' = <<>>
    /\ stack' = <<>>
    /\ m_cleaning' = FALSE
    /\ running' = FALSE
    /\ stop_req' = FALSE
    /\ balance' = [t \in Addresses |-> 0]
    /\ UNCHANGED <<on_target_present, ev, cleaned, destroyed, loop, m_active, exc_type>>

\* The program ends: the static instance of Loop::current() is destroyed.
ProgramExit ==
    /\ destroyed
    /\ loop.current
    /\ loop' = [Loop_dtor(loop) EXCEPT !.current = FALSE]
    /\ last' = [op |-> "exit"]
    /\ UNCHANGED <<targets, m_cleaning, on_target_present, ev, cleaned, running, stop_req, stack, aborted,
                   balance, destroyed, m_active, exc_type>>

(* ------------------------------------------------------------------ *)
(* Dispatcher::cleanup                                                 *)
(* ------------------------------------------------------------------ *)
\* cleanup() up to its first call of user code: the flag and the two snapshots.
CleanupBegin ==
    /\ InUser
    /\ Len(stack) + 2 <= MaxDepth
    /\ m_cleaning' = TRUE
    /\ stack' = Append(stack, CleanupFrame(cleanup_all(targets), cleanup_active(targets), targets))
    /\ last' = [op |-> "cleanup"]
    /\ UNCHANGED <<targets, on_target_present, ev, cleaned, destroyed, loop, m_active, exc_type, running, stop_req, aborted, balance>>

\* for (auto &target : active) handler(target, Event::Cleanup);
CleanupDeliver ==
    /\ ~aborted
    /\ stack # <<>>
    /\ Top.f = "cleanup"
    /\ Top.active # <<>>
    /\ LET t == Head(Top.active)
           fr == [Top EXCEPT !.active = Tail(@), !.sent[t] = @ + 1, !.gone = @ \ {t},
                             !.quiet = @ \ {t}]
       IN  CallHandler(t, t, Cleanup, nullptr, Append(Pop, fr), [kind |-> "Cleanup"])

\* for (auto &target : all) release_watching(*target);
CleanupRelease ==
    /\ ~aborted
    /\ stack # <<>>
    /\ Top.f = "cleanup"
    /\ Top.active = <<>>
    /\ Top.all # <<>>
    /\ Release(Head(Top.all), Append(Pop, [Top EXCEPT !.all = Tail(@)]), "cleanup")

\* m_cleaning = false; cleanup returns.  When python::Dispatcher::start made the
\* call, start ends here: it raises the recorded fault if exc_type is set.
CleanupEnd ==
    /\ ~aborted
    /\ stack # <<>>
    /\ Top.f = "cleanup"
    /\ Top.active = <<>>
    /\ Top.all = <<>>
    /\ m_cleaning' = FALSE
    /\ stack' = Pop
    /\ last' = [op |-> "cleanup_return", by |-> Top.by, sent |-> Top.sent, freed |-> Top.freed,
                entry_all |-> Top.entry_all, entry_active |-> Top.entry_active,
                faulted |-> Top.faulted,
                raised |-> (Top.by = "start" /\ exc_type # nullptr)]
    /\ UNCHANGED <<targets, on_target_present, ev, cleaned, destroyed, loop, m_active, exc_type, running, stop_req, aborted, balance>>

\* ~Dispatcher, called from the main program while the loop is not running: the
\* cleanup() run it makes is a run like any other (CleanupBegin and the steps above),
\* and so is the run ev_loop_destroy makes through the dispatcher's cleanup watcher
\* when ~Loop of the member m_loop destroys the default loop.  When the last run has
\* returned the members are destroyed: m_loop (the copy of the caller's handle) and
\* the registry as it is, a watcher still active in it staying linked in the loop.
Destructor ==
    /\ InUser
    /\ stack = <<>>
    /\ last.op = "cleanup_return"
    /\ destroyed' = TRUE
    /\ loop' = Loop_dtor(loop)
    /\ last' = [last EXCEPT !.op = "destructor_return"]
    /\ UNCHANGED <<targets, m_cleaning, on_target_present, ev, cleaned, m_active, exc_type, running, stop_req, stack, aborted, balance>>

(* ------------------------------------------------------------------ *)
(* The Cython callback EventLoop.                                      *)
(* ------------------------------------------------------------------ *)
\* User code of the EventLoop is running: the main program, or a callback.
EvInUser ==
    /\ ~ev.aborted
    /\ IF ev.stack = <<>> THEN TRUE ELSE ev.stack[Len(ev.stack)] = "callback"

\* Control is in the while loop of start(), inside or between ev_run calls.
EvInRun ==
    /\ ~ev.aborted
    /\ IF ev.stack = <<>> THEN FALSE ELSE ev.stack[Len(ev.stack)] = "start"

\* The handles recorded in one of the three sets.
Recorded(e) == e.readies \cup e.timeouts \cup e.signals

\* setup_io / setup_timer / setup_signal after the handle h was constructed: it is
\* started, and recorded in `set` if it is active then.
EvSetup(h, set, what) ==
    /\ EvInUser
    /\ Len(ev.handles) < MaxHandles
    /\ LET id == Len(ev.handles) + 1
           h1 == Handle_start(h)
           e1 == [ev EXCEPT !.handles = Append(@, h1)]
       IN  /\ ev' = IF h1.active THEN Record(e1, set, id) ELSE e1
           /\ last' = [op |-> "setup", call |-> what, handle |-> id,
                       got |-> (IF h1.active THEN id ELSE 0)]
    /\ UNCHANGED dispatcher_vars

EvSetupIo(fd, events) == EvSetup(ReadyHandle(fd, events), "readies", "setup_io")
EvSetupTimer(seconds) == EvSetup(TimeoutHandle(seconds), "timeouts", "setup_timer")
EvSetupSignal(signum) == EvSetup(SignalHandle(signum), "signals", "setup_signal")

\* A setup_* call hands libev a watcher it refuses (negative fd, negative repeat,
\* signum out of range): the build with assertions aborts (the other build goes on
\* as EvSetup).
EvAssertAbort ==
    /\ EvInUser
    /\ Len(ev.handles) < MaxHandles
    /\ \/ \E fd \in EvFilenos : EvRejects(ReadyHandle(fd, Read))
       \/ \E x \in EvSeconds : EvRejects(TimeoutHandle(x))
       \/ \E n \in EvSignums : EvRejects(SignalHandle(n))
    /\ ev' = [EventLoop EXCEPT !.aborted = TRUE]
    /\ last' = [op |-> "abort", call |-> "setup"]
    /\ UNCHANGED dispatcher_vars

\* cancel_io / cancel_timer / cancel_signal for the handle id, of the kind the
\* method accepts.
EvCancel(id, set, what) ==
    /\ EvInUser
    /\ id \in 1..Len(ev.handles)
    /\ ev.handles[id].kind = set
    /\ ev' = cancel(ev, set, id)
    /\ last' = [op |-> "cancel", call |-> what, handle |-> id, ret |-> (id \in ev[set])]
    /\ UNCHANGED dispatcher_vars

EvCancelIo(id) == EvCancel(id, "readies", "cancel_io")
EvCancelTimer(id) == EvCancel(id, "timeouts", "cancel_timer")
EvCancelSignal(id) == EvCancel(id, "signals", "cancel_signal")

\* EventLoop.stop
EvStop ==
    /\ EvInUser
    /\ ev' = EventLoop_stop(ev)
    /\ last' = [op |-> "ev_stop"]
    /\ UNCHANGED dispatcher_vars

\* EventLoop.start up to the while loop: the SIGINT handle is set up, _running = 1.
EvStart ==
    /\ EvInUser
    /\ Len(ev.handles) < MaxHandles
    /\ Cardinality({i \in 1..Len(ev.stack) : ev.stack[i] = "start"}) < MaxStarts
    /\ LET id == Len(ev.handles) + 1
           h1 == [Handle_start(SignalHandle(SIGINT)) EXCEPT !.sigint = TRUE]
           e1 == Record([ev EXCEPT !.handles = Append(@, h1)], "signals", id)
       IN  ev' = [e1 EXCEPT !.running = 1, !.stack = Append(@, "start")]
    /\ last' = [op |-> "ev_start"]
    /\ UNCHANGED dispatcher_vars

\* ev_run invokes the callback of the active handle id; libev has stopped a timer
\* without repeat before it does.  The SIGINT handle calls _on_sigint, which is
\* stop(); any other handle calls the user's callback.
EvFire(id) ==
    /\ EvInRun
    /\ id \in 1..Len(ev.handles)
    /\ ev.handles[id].active
    /\ LET e1 == [ev EXCEPT !.handles[id] = ev_invoke(@)]
       IN  IF ev.handles[id].sigint
           THEN /\ ev' = EventLoop_stop(e1)
                /\ last' = [op |-> "on_sigint", handle |-> id]
           ELSE /\ ev' = [e1 EXCEPT !.stack = Append(@, "callback")]
                /\ last' = [op |-> "callback", handle |-> id]
    /\ UNCHANGED dispatcher_vars

\* The user's callback returns to ev_run.
EvCallbackReturn ==
    /\ ~ev.aborted
    /\ ev.stack # <<>>
    /\ ev.stack[Len(ev.stack)] = "callback"
    /\ ev' = [ev EXCEPT !.stack = SubSeq(@, 1, Len(@) - 1)]
    /\ last' = [op |-> "callback_return"]
    /\ UNCHANGED dispatcher_vars

\* The while loop of start() ends, _running being 0 or KeyboardInterrupt being
\* raised in it, and the finally block runs; start() returns.
EvStartReturn(interrupted) ==
    /\ EvInRun
    /\ ev.running = 0 \/ interrupted
    /\ ev' = [finally(ev) EXCEPT !.stack = SubSeq(@, 1, Len(@) - 1)]
    /\ last' = [op |-> "ev_start_return", interrupted |-> interrupted,
                running |-> ev.running, recorded |-> Recorded(ev),
                were_armed |-> {i \in Recorded(ev) : ev.handles[i].active}]
    /\ UNCHANGED dispatcher_vars

(* ------------------------------------------------------------------ *)
(* The older Dispatcher (ev::loop_ref, no m_cleaning flag).            *)
(* ------------------------------------------------------------------ *)
\* Its watch_timer, enable_watching, disable_watching, release_watching and handler
\* are the ones above without the m_cleaning test: the flag does not exist, which is
\* the flag staying false.
OldWatchTimer(t, timeout) == ~m_cleaning /\ WatchTimer(t, timeout)
OldEnableWatching(t) == ~m_cleaning /\ EnableWatching(t)
OldDisableWatching(t) == ~m_cleaning /\ DisableWatching(t)
OldReleaseWatching(t) == ~m_cleaning /\ ReleaseWatching(t)
OldHandlerReturn(ret) == ~m_cleaning /\ HandlerReturn(ret)

\* cleanup() of the older variant, called by the main program, up to its first call
\* of user code: the two snapshots.
OldCleanupBegin ==
    /\ InUser
    /\ stack = <<>>
    /\ stack' = Append(stack, CleanupFrame(cleanup_all(targets), cleanup_active(targets), targets))
    /\ last' = [op |-> "cleanup"]
    /\ UNCHANGED <<targets, m_cleaning, on_target_present, ev, cleaned, destroyed, loop, m_active, exc_type, running, stop_req, aborted, balance>>

\* for (auto &target : active) handler(target, CLEANUP);
OldCleanupDeliver == ~m_cleaning /\ CleanupDeliver

\* for (auto &target : all) release_watching(*target);
OldCleanupRelease == ~m_cleaning /\ CleanupRelease

\* cleanup() of the older variant returns.
OldCleanupEnd ==
    /\ ~aborted
    /\ stack # <<>>
    /\ Top.f = "cleanup"
    /\ Top.active = <<>>
    /\ Top.all = <<>>
    /\ stack' = Pop
    /\ last' = [op |-> "cleanup_return", by |-> Top.by, sent |-> Top.sent, freed |-> Top.freed,
                entry_all |-> Top.entry_all, entry_active |-> Top.entry_active,
                left_armed |-> {t \in DOMAIN targets : ~AllInactive(targets, t)}]
    /\ UNCHANGED <<targets, m_cleaning, on_target_present, ev, cleaned, destroyed, loop, m_active, exc_type, running, stop_req, aborted, balance>>

(* ------------------------------------------------------------------ *)
(* The Python binding: python::Dispatcher.                             *)
(* ------------------------------------------------------------------ *)
\* start() up to the call of Loop::start; ev_run clears a pending break on entry.
PyStart ==
    /\ InPython
    /\ Len(stack) < MaxDepth
    /\ exc_type' = nullptr
    /\ m_active' = TRUE
    /\ running' = TRUE
    /\ stop_req' = FALSE
    /\ stack' = Append(stack, StartFrame)
    /\ last' = [op |-> "py_start"]
    /\ UNCHANGED <<targets, m_cleaning, on_target_present, ev, cleaned, destroyed, loop, aborted, balance>>

\* The callable raises (or its result does not convert to bool): the catch block of
\* on_event fetches the error and calls stop(); on_event returns false to
\* Dispatcher::handler, which does not call enable_watching.
HandlerFault ==
    /\ ~aborted
    /\ stack # <<>>
    /\ Top.f = "handler"
    /\ Len(stack) > 1
    /\ exc_type' = PtrTo(Top.target)
    /\ stop_req' = TRUE
    /\ targets' = handler_rearm(targets, m_cleaning, Top.target, FALSE)
    /\ stack' = LET stk == [Pop EXCEPT ![Len(stack) - 1].faulted = TRUE]
                IN  IF Top.rearmed THEN stk ELSE MarkQuiet(stk, Top.target)
    /\ last' = [op |-> "return", target |-> Top.target, ret |-> FALSE, revents |-> Top.revents,
                rearmed |-> Top.rearmed, released |-> Top.released, fault |-> TRUE]
    /\ UNCHANGED <<m_cleaning, on_target_present, ev, cleaned, destroyed, loop, m_active, running, aborted, balance>>

\* Loop::start returns to start(): m_active = false, then cleanup() up to its first
\* call of user code.
PyLoopReturn ==
    /\ ~aborted
    /\ stack # <<>>
    /\ Top.f = "start"
    /\ stop_req \/ \A t \in DOMAIN targets : AllInactive(targets, t)
    /\ running' = (\E i \in 1..(Len(stack) - 1) : stack[i].f = "start")
    /\ stop_req' = FALSE
    /\ m_active' = FALSE
    /\ m_cleaning' = TRUE
    /\ stack' = Append(Pop, [CleanupFrame(cleanup_all(targets), cleanup_active(targets), targets)
                                 EXCEPT !.by = "start", !.faulted = Top.faulted])
    /\ last' = [op |-> "cleanup"]
    /\ UNCHANGED <<targets, on_target_present, ev, cleaned, destroyed, loop, exc_type, aborted, balance>>

(* ------------------------------------------------------------------ *)
(* The demo program (main).                                            *)
(* ------------------------------------------------------------------ *)

\* dispatcher.watch_timer(string("Alesh"), 1.0): the target is a temporary, destroyed
\* at the end of the statement; the dispatcher keeps its address as the key and in the
\* closure.  The temporaries of the three statements may or may not share storage.
DemoWatchAlesh ==
    /\ last.op = "init"
    /\ \E a \in Addresses : WatchTimer(a, 1)

\* dispatcher.watch_timer(string("World"), 3.0)
DemoWatchWorld ==
    /\ last.op = "watch_timer"
    /\ last.timeout = 1
    /\ \E a \in Addresses : WatchTimer(a, 3)

\* dispatcher.watch_signal(string("SIGINT"), SIGINT)
DemoWatchSigint ==
    /\ last.op = "watch_timer"
    /\ last.timeout = 3
    /\ \E a \in Addresses : WatchSignal(a, SIGINT)

\* Loop::current().start()
DemoStart ==
    /\ last.op = "watch_signal"
    /\ LoopStart

\* The lambda: true for a Timer event; otherwise Loop::current().stop() and false.
DemoHandler ==
    /\ stack # <<>>
    /\ Top.f = "handler"
    /\ Return(Top.revents = Timer, Top.revents # Timer)

\* The lambda reads *target, a destroyed string: the read can also fault.
DemoDangling ==
    /\ ~aborted
    /\ stack # <<>>
    /\ Top.f = "handler"
    /\ aborted' = TRUE
    /\ targets' = <<>>
    /\ stack' = <<>>
    /\ m_cleaning' = FALSE
    /\ running' = FALSE
    /\ stop_req' = FALSE
    /\ balance' = [t \in Addresses |-> 0]
    /\ last' = [op |-> "abort", call |-> "on_target_event"]
    /\ UNCHANGED <<on_target_present, ev, cleaned, destroyed, loop, m_active, exc_type>>

\* return 0: ~Dispatcher calls cleanup().
DemoExit ==
    /\ last.op = "loop_return"
    /\ CleanupBegin

(* ------------------------------------------------------------------ *)
(* Specifications.                                                     *)
(* ------------------------------------------------------------------ *)
\* The delivery and cleanup protocol: two targets, each with a timer and an I/O
\* watcher, every operation callable from the main program, a handler or a hook.
Next ==
    \/ \E t \in TargetIds, x \in ProtoTimeouts : WatchTimer(t, x)
    \/ \E t \in TargetIds, fd \in ProtoFilenos, e \in ProtoMasks : WatchIo(t, fd, e)
    \/ \E t \in TargetIds : EnableWatching(t)
    \/ \E t \in TargetIds : DisableWatching(t)
    \/ \E t \in TargetIds : ReleaseWatching(t)
    \/ OnFreeReturn
    \/ LoopStart
    \/ LoopStop
    \/ LoopReturn
    \/ \E t \in TargetIds, k \in 1..MaxWatchers, r \in {Timer, Read} : Fire(t, k, r)
    \/ \E r \in BOOLEAN : HandlerReturn(r)
    \/ CleanupBegin
    \/ CleanupDeliver
    \/ CleanupRelease
    \/ CleanupEnd
    \/ Destructor
    \/ ProgramExit

Spec == Init /\ [][Next]_vars

\* The watcher parameters: one target, valid and invalid arguments of every kind,
\* called from the main program of a dispatcher without hooks.
NextParams ==
    \/ \E x \in Timeouts : WatchTimer(1, x)
    \/ \E fd \in Filenos, e \in Masks : WatchIo(1, fd, e)
    \/ \E s \in Signums : WatchSignal(1, s)
    \/ EnableWatching(1)
    \/ DisableWatching(1)
    \/ ReleaseWatching(1)
    \/ AssertAbort

InitParams == Init /\ ~on_target_present

SpecParams == InitParams /\ [][NextParams]_vars

\* The older Dispatcher: two targets, timers, cleanup() called by the main program.
NextOld ==
    \/ \E t \in TargetIds, x \in ProtoTimeouts : OldWatchTimer(t, x)
    \/ \E t \in TargetIds : OldEnableWatching(t)
    \/ \E t \in TargetIds : OldDisableWatching(t)
    \/ \E t \in TargetIds : OldReleaseWatching(t)
    \/ OnFreeReturn
    \/ \E r \in BOOLEAN : OldHandlerReturn(r)
    \/ OldCleanupBegin
    \/ OldCleanupDeliver
    \/ OldCleanupRelease
    \/ OldCleanupEnd

SpecOld == Init /\ [][NextOld]_vars

\* The Cython callback EventLoop: valid and invalid arguments, callbacks that set
\* up, cancel, stop and start.
NextEv ==
    \/ \E fd \in EvFilenos : EvSetupIo(fd, Read)
    \/ \E x \in EvSeconds : EvSetupTimer(x)
    \/ \E n \in EvSignums : EvSetupSignal(n)
    \/ EvAssertAbort
    \/ \E id \in 1..MaxHandles : EvCancelIo(id)
    \/ \E id \in 1..MaxHandles : EvCancelTimer(id)
    \/ \E id \in 1..MaxHandles : EvCancelSignal(id)
    \/ EvStop
    \/ EvStart
    \/ \E id \in 1..MaxHandles : EvFire(id)
    \/ EvCallbackReturn
    \/ \E i \in BOOLEAN : EvStartReturn(i)

SpecEv == InitParams /\ [][NextEv]_vars

\* The binding: Python code calls what module.cxx exposes, from the main program or
\* from a callable, on a dispatcher whose hooks are configured.
NextBinding ==
    \/ \E t \in TargetIds, x \in ProtoTimeouts : InPython /\ WatchTimer(t, x)
    \/ \E t \in TargetIds : InPython /\ DisableWatching(t)
    \/ \E t \in TargetIds : InPython /\ ReleaseWatching(t)
    \/ InPython /\ LoopStop
    \/ PyStart
    \/ PyLoopReturn
    \/ OnFreeReturn
    \/ \E t \in TargetIds, k \in 1..MaxWatchers : Fire(t, k, Timer)
    \/ \E r \in BOOLEAN : HandlerReturn(r)
    \/ HandlerFault
    \/ CleanupDeliver
    \/ CleanupRelease
    \/ CleanupEnd

InitBinding == Init /\ on_target_present

SpecBinding == InitBinding /\ [][NextBinding]_vars

\* The demo: main registers its three targets, runs the loop and returns.
NextDemo ==
    \/ DemoWatchAlesh
    \/ DemoWatchWorld
    \/ DemoWatchSigint
    \/ DemoStart
    \/ \E t \in Addresses, k \in 1..MaxWatchers, r \in {Timer, Signal} : Fire(t, k, r)
    \/ DemoHandler
    \/ DemoDangling
    \/ LoopReturn
    \/ DemoExit
    \/ CleanupDeliver
    \/ CleanupRelease
    \/ CleanupEnd
    \/ Destructor

InitDemo == Init /\ ~on_target_present

\* The payloads: one target with watchers of every kind, events of every kind and
\* cleanup, every operation callable from the main program or a handler.
NextPayload ==
    \/ \E x \in ProtoTimeouts : WatchTimer(1, x)
    \/ \E fd \in PayloadFilenos : WatchIo(1, fd, Read)
    \/ \E sig \in PayloadSignums : WatchSignal(1, sig)
    \/ ReleaseWatching(1)
    \/ LoopStart
    \/ LoopStop
    \/ LoopReturn
    \/ \E k \in 1..MaxWatchers, r \in {Timer, Read, Signal} : Fire(1, k, r)
    \/ \E r \in BOOLEAN : HandlerReturn(r)
    \/ CleanupBegin
    \/ CleanupDeliver
    \/ CleanupRelease
    \/ CleanupEnd

SpecPayload == InitParams /\ [][NextPayload]_vars

SpecDemo == InitDemo /\ [][NextDemo]_vars

(* ------------------------------------------------------------------ *)
(* Properties.                                                         *)
(* ------------------------------------------------------------------ *)
TimersOf(ws) == {i \in 1..Len(ws) : ws[i].kind = "Timer"}
IosOf(ws) == {i \in 1..Len(ws) : ws[i].kind = "Io"}
SignalsOf(ws) == {i \in 1..Len(ws) : ws[i].kind = "Signal"}
Indicator(S) == [t \in Addresses |-> IF t \in S THEN 1 ELSE 0]

\* C1: when the handler is entered for a target, every watcher of that target has
\* been stopped (all of them, not only the one that fired), and none of them is
\* started again before the handler returns unless the handler's own calls start it:
\* disable, then the handler body, then the conditional re-arm.
C1_HandlerEntersQuiescent ==
    /\ (last.op = "handler" /\ last.live) => AllInactive(targets, last.target)
    /\ \A i \in 1..Len(stack) :
          (stack[i].f = "handler" /\ ~stack[i].rearmed /\ stack[i].target \in DOMAIN targets)
              => AllInactive(targets, stack[i].target)

\* A watcher of a target with two armed watchers fired; both are stopped.
C1_Witness ==
    /\ last.op = "handler"
    /\ last.revents = Timer
    /\ last.armed = 2
    /\ AllInactive(targets, last.target)

\* C2: after the handler of an event delivered outside cleanup returned true, every
\* watcher of the target, if it is still registered, is active.
C2_RearmOnTruthyReturn ==
    (last.op = "return" /\ last.ret /\ last.revents # Cleanup
        /\ last.target \in DOMAIN targets)
    => AllActive(targets, last.target)

\* A handler that made no call on its target returned true; both watchers are armed.
C2_Witness ==
    /\ last.op = "return"
    /\ last.ret
    /\ last.revents = Timer
    /\ ~last.rearmed
    /\ last.target \in DOMAIN targets
    /\ Len(targets[last.target]) = 2
    /\ AllActive(targets, last.target)

\* C3 as claimed: after a handler returned false every watcher of the target is
\* inactive, whatever the handler did while it ran.
C3_FalsyReturnAlwaysInactive ==
    (last.op = "return" /\ ~last.ret /\ last.target \in DOMAIN targets)
    => AllInactive(targets, last.target)

\* C3, amended: after a handler returned false, every watcher of the target is
\* inactive provided the handler did not itself arm the target (watch_* or
\* enable_watching on it while it ran); and the falsy return removes and changes
\* nothing: the registry is as the handler's own calls left it.
C3_FalsyReturnKeepsStopped ==
    /\ []((last.op = "return" /\ ~last.ret /\ ~last.rearmed
             /\ last.target \in DOMAIN targets)
          => AllInactive(targets, last.target))
    /\ [][(last'.op = "return" /\ ~last'.ret) => targets' = targets]_vars

\* A handler that made no call on its target returned false; the target is still
\* registered with both watchers, stopped.
C3_Witness ==
    /\ last.op = "return"
    /\ ~last.ret
    /\ last.revents = Timer
    /\ ~last.rearmed
    /\ last.target \in DOMAIN targets
    /\ Len(targets[last.target]) = 2
    /\ AllInactive(targets, last.target)

\* C4: with hooks configured, for every target the number of on_apply calls minus
\* the number of on_free calls is 1 while the target is in the registry and 0 while
\* it is not (so each entry into the registry is one on_apply and each exit one
\* on_free).
C4_ApplyFreePaired ==
    on_target_present =>
        \A t \in TargetIds : balance[t] = IF t \in DOMAIN targets THEN 1 ELSE 0

\* A registered target was released and its on_free hook called.
C4_Witness ==
    /\ on_target_present
    /\ last.op = "release_watching"
    /\ last.ret
    /\ last.hooks = 1
    /\ balance[last.target] = 0

\* C5: the handler is never invoked for a target that has been released and not
\* registered again, with any revents, Cleanup included.
C5_NoEventAfterRelease ==
    last.op = "handler" => last.live

\* C6: a handler invocation caused by a watcher that fired carries the target under
\* whose key the watcher is registered, that target is in the registry, and (with
\* hooks) its on_apply has been called and not yet answered by on_free.
C6_EventsForLiveAppliedOwner ==
    (last.op = "handler" /\ last.revents # Cleanup) =>
        /\ last.target = last.key
        /\ last.live
        /\ on_target_present => balance[last.target] = 1

\* The I/O watcher of the second target fired, with hooks configured.
C6_Witness ==
    /\ last.op = "handler"
    /\ last.revents = Read
    /\ last.target = 2
    /\ last.key = 2
    /\ on_target_present

C8_TimerReuse ==
    (last.op = "watch_timer" /\ ~last.cleaning) =>
        /\ last.target \in DOMAIN targets
        /\ Cardinality(TimersOf(targets[last.target])) = 1
        /\ \A i \in TimersOf(targets[last.target]) :
              LET w == targets[last.target][i]
              IN  IF last.timeout >= 0
                  THEN w.after = last.timeout /\ w.repeat = last.timeout /\ w.active
                  ELSE w.after = -1 /\ w.repeat = 0 /\ ~w.active

\* watch_timer(T, 2) on a target whose timer was set to 1.
C8_Witness ==
    /\ last.op = "watch_timer"
    /\ last.timeout = 2
    /\ last.was = {1}
    /\ last.reused
    /\ \E i \in TimersOf(targets[last.target]) : targets[last.target][i].after = 2

\* C9: a target never holds two I/O watchers with the same fd nor two signal
\* watchers with the same signum; after watch_io(T, fd >= 0, ...) / watch_signal(T,
\* signum >= 0) T holds a watcher bound to that fd / signum; and as long as T stays
\* registered no call removes a watcher of T, changes its kind or rebinds a bound one.
C9_IoSignalReuse ==
    /\ [](\A t \in DOMAIN targets : \A i, j \in 1..Len(targets[t]) : (i # j) =>
            LET a == targets[t][i]
                b == targets[t][j]
            IN  /\ ~(a.kind = "Io" /\ b.kind = "Io" /\ a.fd = b.fd)
                /\ ~(a.kind = "Signal" /\ b.kind = "Signal" /\ a.signum = b.signum))
    /\ []((last.op = "watch_io" /\ ~last.cleaning /\ last.fileno >= 0) =>
            \E i \in IosOf(targets[last.target]) : targets[last.target][i].fd = last.fileno)
    /\ []((last.op = "watch_signal" /\ ~last.cleaning /\ last.signum >= 0) =>
            \E i \in SignalsOf(targets[last.target]) :
                targets[last.target][i].signum = last.signum)
    /\ [][\A t \in (DOMAIN targets) \cap (DOMAIN targets') :
            /\ Len(targets'[t]) >= Len(targets[t])
            /\ \A i \in 1..Len(targets[t]) :
                  LET a == targets[t][i]
                      b == targets'[t][i]
                  IN  /\ b.kind = a.kind
                      /\ (a.kind = "Io" /\ a.fd >= 0) => b.fd = a.fd
                      /\ (a.kind = "Signal" /\ a.signum >= 0) => b.signum = a.signum]_vars

\* A timer and the I/O watchers of two file descriptors, all armed on one target.
C9_Witness ==
    /\ 1 \in DOMAIN targets
    /\ AllActive(targets, 1)
    /\ \E i \in TimersOf(targets[1]) : TRUE
    /\ \E i, j \in IosOf(targets[1]) : targets[1][i].fd = 3 /\ targets[1][j].fd = 4

\* C10: a run of cleanup() sends the Cleanup event once to each target that had an
\* active watcher when the run began and never to any other target.
C10_CleanupEvents ==
    /\ \A i \in 1..Len(stack) : stack[i].f = "cleanup" =>
          /\ \A t \in TargetIds : stack[i].sent[t] <= Indicator(stack[i].entry_active)[t]
          /\ (stack[i].active = <<>>) => (stack[i].sent = Indicator(stack[i].entry_active))
    /\ last.op = "cleanup_return" => last.sent = Indicator(last.entry_active)

\* A cleanup run ended that began with one active and one stopped target.
C10_Witness ==
    /\ last.op = "cleanup_return"
    /\ \E t1, t2 \in last.entry_all :
          /\ t1 \in last.entry_active
          /\ last.sent[t1] = 1
          /\ t2 \notin last.entry_active
          /\ last.sent[t2] = 0

\* A cleanup() run is in progress: it has been entered and has not returned.
InCleanup == \E i \in 1..Len(stack) : stack[i].f = "cleanup"

\* C11: when cleanup() returns, the registry is empty (so no target watcher is
\* registered with the loop), m_cleaning is false, every target that was registered
\* when the run began has been released since and, with hooks configured, every
\* on_apply has been answered by one on_free.
C11_CleanupPostcondition ==
    last.op = "cleanup_return" =>
        /\ targets = <<>>
        /\ ~m_cleaning
        /\ last.entry_all \subseteq last.freed
        /\ on_target_present => \A t \in TargetIds : balance[t] = 0

\* C12: a watch_timer / watch_io / watch_signal / enable_watching call made while a
\* cleanup() run is in progress returns false and changes nothing: no target and no
\* watcher is added, nothing is armed, no on_apply is called.
C12_CleanupInhibitsRegistration ==
    [][(InCleanup /\ last'.op \in {"watch_timer", "watch_io", "watch_signal", "enable_watching"})
       => (~last'.ret /\ targets' = targets /\ balance' = balance)]_vars

\* C13: a disable_watching or release_watching call made by user code while a
\* cleanup() run is in progress returns false and changes nothing: no watcher is
\* stopped, no target removed, no on_free called.
C13_CleanupInhibitsMutation ==
    [][(InCleanup /\ (\/ last'.op = "disable_watching"
                      \/ (last'.op = "release_watching" /\ last'.by = "user")))
       => (~last'.ret /\ targets' = targets /\ balance' = balance)]_vars

\* C14: between the entry and the exit of a cleanup() run no watcher becomes active:
\* every watcher active after a step of the run was the same watcher, active, before
\* it, whatever the Cleanup-event handlers return.
C14_CleanupNeverArms ==
    [][InCleanup =>
         \A t \in DOMAIN targets' : \A i \in 1..Len(targets'[t]) :
             targets'[t][i].active =>
                 /\ t \in DOMAIN targets
                 /\ i <= Len(targets[t])
                 /\ targets[t][i].active]_vars

\* C15: a watch_timer / watch_io / watch_signal call that returns false outside
\* cleanup (the watcher could not be armed) adds no target to the registry and no
\* watcher to any sequence.
C15_FailedSetupLeavesRegistry ==
    [][(last'.op \in {"watch_timer", "watch_io", "watch_signal"}
          /\ ~last'.cleaning /\ ~last'.ret)
       => /\ DOMAIN targets' = DOMAIN targets
          /\ \A t \in DOMAIN targets : Len(targets'[t]) = Len(targets[t])]_vars

\* C16: no watcher with invalid parameters is ever active: no timer whose after is
\* negative, no I/O watcher whose fd is negative or whose events mask is zero, no
\* signal watcher whose signum is negative.
C16_InvalidNeverArmed ==
    \A t \in DOMAIN targets : \A i \in 1..Len(targets[t]) :
        LET w == targets[t][i]
        IN  w.active =>
              CASE w.kind = "Timer" -> w.after >= 0
                [] w.kind = "Io" -> w.fd >= 0 /\ w.events # 0
                [] w.kind = "Signal" -> w.signum >= 0

\* The watcher a watch_* call has just installed or reused is active.
InstalledActive ==
    /\ last.target \in DOMAIN targets
    /\ \E i \in 1..Len(targets[last.target]) :
          LET w == targets[last.target][i]
          IN  /\ w.active
              /\ CASE last.op = "watch_timer" -> w.kind = "Timer"
                   [] last.op = "watch_io" -> w.kind = "Io" /\ w.fd = last.fileno
                   [] last.op = "watch_signal" -> w.kind = "Signal" /\ w.signum = last.signum

\* The arguments of the watch_* call are valid.
ValidArguments ==
    CASE last.op = "watch_timer" -> last.timeout >= 0
      [] last.op = "watch_io" -> last.fileno >= 0 /\ last.events # 0
      [] last.op = "watch_signal" -> last.signum >= 0

\* C17: outside cleanup a watch_timer / watch_io / watch_signal call returns, with
\* true iff the watcher it installed or reused is active at that moment, and that is
\* iff its arguments are valid (timeout >= 0; fd >= 0 and a non-zero mask;
\* signum >= 0).
C17_WatchResultReflectsArming ==
    /\ (last.op \in {"watch_timer", "watch_io", "watch_signal"} /\ ~last.cleaning) =>
          /\ last.ret <=> InstalledActive
          /\ last.ret <=> ValidArguments
    /\ ~(last.op = "abort" /\ last.call = "watch_signal")

\* C18: when the destructor of a dispatcher with a non-empty registry has run, each
\* target that had an active watcher has received one Cleanup event, every target has
\* been released (every on_apply answered by one on_free), and no target watcher is
\* left: the registry is empty.
C18_CleanupOnDestruction ==
    (destroyed /\ last.op = "destructor_return") =>
        /\ targets = <<>>
        /\ last.sent = Indicator(last.entry_active)
        /\ last.entry_all \subseteq last.freed
        /\ on_target_present => \A t \in TargetIds : balance[t] = 0

\* C20: when the handler of T has released T and returns true (T not having been
\* registered again meanwhile), T is absent from the registry, its on_apply and
\* on_free calls are paired, and the handler is not called for T again before T is
\* registered anew.
C20_ReleaseInHandlerAuthoritative ==
    /\ (last.op = "return" /\ last.ret /\ last.released /\ ~last.rearmed) =>
          /\ last.target \notin DOMAIN targets
          /\ on_target_present => balance[last.target] = 0
    /\ last.op = "handler" => ~last.after_gone

\* C19: in the binding, when the callable faults, on_event records the fault, requests
\* the loop to stop and returns false, so the return arms nothing for the target; and
\* when start() returns, its cleanup has run to completion (registry empty, every
\* on_apply matched by an on_free, cleaning over) and a fault recorded for a handler
\* this run of start dispatched is raised to the caller.
C19_FaultPropagation ==
    /\ (last.op = "return" /\ last.fault) =>
          /\ exc_type # nullptr
          /\ stop_req
          /\ ~last.ret
          /\ (~last.rearmed /\ last.target \in DOMAIN targets) => AllInactive(targets, last.target)
    /\ (last.op = "cleanup_return" /\ last.by = "start") =>
          /\ targets = <<>>
          /\ \A t \in TargetIds : balance[t] = 0
          /\ ~m_cleaning
          /\ last.faulted => last.raised

\* C21: after the handler of T returned false (not having armed T itself) no event,
\* Cleanup included, is delivered to T until watch_* or enable_watching is called for
\* T: the handler is not called for a target so silenced, a stopped target gets an
\* active watcher only by such a call (or by the true return of its own handler), and
\* a watcher event always comes from an armed watcher; and an enable_watching(T) that
\* returns true leaves every watcher of T active.
C21_SilentUntilEnabled ==
    /\ [](last.op = "handler" => ~last.after_quiet)
    /\ [](last.op = "handler" /\ last.revents # Cleanup => last.armed > 0)
    /\ [](last.op = "enable_watching" /\ last.ret => AllActive(targets, last.target))
    /\ [][\A t \in (DOMAIN targets) \cap (DOMAIN targets') :
            (AllInactive(targets, t) /\ ~AllInactive(targets', t)) =>
                /\ last'.target = t
                /\ \/ last'.op \in {"watch_timer", "watch_io", "watch_signal", "enable_watching"}
                   \/ last'.op = "return" /\ last'.ret]_vars

C24_ReportExistence ==
    /\ [][(last'.op \in {"enable_watching", "disable_watching"} /\ ~m_cleaning) =>
            /\ last'.ret <=> (last'.target \in DOMAIN targets)
            /\ (last'.target \notin DOMAIN targets) =>
                  UNCHANGED <<targets, balance, m_cleaning, running, stop_req>>]_vars
    /\ [](~(last.op = "abort" /\ last.call = "enable_watching"))

\* C25: every handler invocation made by an I/O watcher carries a pointer to that
\* watcher's file descriptor, every one made by a signal watcher a pointer to its
\* signal number, and every one made by a timer watcher or by cleanup() no payload.
C25_PayloadByKind ==
    last.op = "handler" =>
        CASE last.from.kind = "Io" -> last.payload = PtrTo(last.from.fd)
          [] last.from.kind = "Signal" -> last.payload = PtrTo(last.from.signum)
          [] last.from.kind = "Timer" -> last.payload = nullptr
          [] last.from.kind = "Cleanup" -> last.payload = nullptr

\* The target holds the I/O watchers of two descriptors and a signal watcher; the
\* watcher of the second descriptor fired and the handler got that descriptor.
C25_Witness ==
    /\ last.op = "handler"
    /\ last.from.kind = "Io"
    /\ last.from.fd = 4
    /\ last.payload = PtrTo(4)
    /\ \E i \in IosOf(targets[1]) : targets[1][i].fd = 3
    /\ \E i \in SignalsOf(targets[1]) : targets[1][i].signum = 15

\* C26: as long as the handle Loop::current() is live the loop it refers to has not
\* been destroyed, whatever copies of the handle have been destroyed; and the loop is
\* destroyed at most once.
C26_LoopHandleCopy ==
    /\ loop.current => loop.alive
    /\ loop.destroys <= 1

\* The kind-specific parameters of a watcher.
ParamsOf(w) ==
    CASE w.kind = "Timer" -> <<w.after, w.repeat>>
      [] w.kind = "Io" -> <<w.fd, w.events>>
      [] w.kind = "Signal" -> <<w.signum>>

\* C27: no watcher is ever registered while it is registered, nor given new
\* parameters while it is registered (is_active being libev's own registration
\* flag); the parameters of an active watcher change only across a watch_* call for
\* its target, whose start(params) stops it, sets the parameters and starts it.
C27_RegistrationInvariant ==
    /\ [](\A t \in DOMAIN targets : \A i \in 1..Len(targets[t]) : ~targets[t][i].misused)
    /\ [][\A t \in (DOMAIN targets) \cap (DOMAIN targets') :
            \A i \in 1..Len(targets[t]) :
                (i <= Len(targets'[t]) /\ targets[t][i].active
                   /\ ParamsOf(targets'[t][i]) # ParamsOf(targets[t][i]))
                => (last'.op \in {"watch_timer", "watch_io", "watch_signal"}
                      /\ last'.target = t)]_vars

\* watch_timer(T, 1) on a target whose armed timer was set to 2: the timer is armed
\* with the new parameters.
C27_Witness ==
    /\ last.op = "watch_timer"
    /\ last.timeout = 1
    /\ last.was = {2}
    /\ last.reused
    /\ \E i \in TimersOf(targets[last.target]) :
          /\ targets[last.target][i].active
          /\ targets[last.target][i].after = 1
          /\ targets[last.target][i].repeat = 1

\* C28: a watch_io(T, fd, e) or watch_signal(T, s) outside cleanup, on a registered
\* target, rebinds the first watcher in insertion order that is of the kind and either
\* bound to the requested fd / signum or never bound (-1), and leaves every other
\* watcher of T as it was; only when T holds no such watcher is one appended.
C28_UnboundReuse ==
    [][(last'.op \in {"watch_io", "watch_signal"} /\ ~last'.cleaning
          /\ last'.target \in DOMAIN targets)
       => LET t == last'.target
              ws == targets[t]
              io == last'.op = "watch_io"
              asked == IF io THEN last'.fileno ELSE last'.signum
              bound == IF asked < 0 THEN -1 ELSE asked
              compatible ==
                  {i \in 1..Len(ws) :
                      IF io THEN ws[i].kind = "Io" /\ ws[i].fd \in {asked, -1}
                            ELSE ws[i].kind = "Signal" /\ ws[i].signum \in {asked, -1}}
          IN  /\ t \in DOMAIN targets'
              /\ IF compatible = {}
                 THEN /\ Len(targets'[t]) = Len(ws) + 1
                      /\ \A i \in 1..Len(ws) : targets'[t][i] = ws[i]
                 ELSE LET f == CHOOSE i \in compatible : \A j \in compatible : i <= j
                      IN  /\ Len(targets'[t]) = Len(ws)
                          /\ \A j \in (1..Len(ws)) \ {f} : targets'[t][j] = ws[j]
                          /\ IF io THEN targets'[t][f].fd = bound
                                   ELSE targets'[t][f].signum = bound]_vars

\* watch_io(T, 4, Read) on a target holding an I/O watcher bound to 3 and, after it, a
\* never-bound one: the never-bound watcher is now bound to 4 and armed.
C28_Witness ==
    /\ last.op = "watch_io"
    /\ last.fileno = 4
    /\ last.events = Read
    /\ last.was = {3, -1}
    /\ last.reused
    /\ last.ret
    /\ Len(targets[last.target]) = 2
    /\ targets[last.target][1].fd = 3
    /\ targets[last.target][2].fd = 4
    /\ targets[last.target][2].active

\* A step leaves the watchers of every target other than t exactly as they were.
OthersUntouched(t) ==
    \A u \in ((DOMAIN targets) \cup (DOMAIN targets')) \ {t} :
        u \in DOMAIN targets /\ u \in DOMAIN targets' /\ targets'[u] = targets[u]

\* A step changes at most the active flags of the watchers of t.
OnlyFlagsOf(t) ==
    /\ DOMAIN targets' = DOMAIN targets
    /\ OthersUntouched(t)
    /\ t \in DOMAIN targets =>
          /\ Len(targets'[t]) = Len(targets[t])
          /\ \A i \in 1..Len(targets[t]) :
                [targets'[t][i] EXCEPT !.active = FALSE] = [targets[t][i] EXCEPT !.active = FALSE]

\* C29: enable_watching(T) and disable_watching(T) change at most the active flags of
\* T's own watchers: the registry keeps its entries and every watcher its parameters,
\* no hook is called, the watchers of other targets are untouched, and
\* enable_watching leaves the watchers of T that were active as they were; the
\* disable step and the re-arm step of a delivery for T likewise change only the
\* active flags of T's watchers.
C29_Frame ==
    /\ [][last'.op \in {"enable_watching", "disable_watching"} =>
            /\ OnlyFlagsOf(last'.target)
            /\ balance' = balance]_vars
    /\ [][last'.op = "enable_watching" =>
            \A i \in 1..(IF last'.target \in DOMAIN targets THEN Len(targets[last'.target]) ELSE 0) :
                targets[last'.target][i].active => targets'[last'.target][i] = targets[last'.target][i]]_vars
    /\ [][last'.op \in {"handler", "return"} =>
            /\ OnlyFlagsOf(last'.target)
            /\ balance' = balance]_vars

\* enable_watching(1) has returned true on a target with two watchers while target 2
\* stays registered with its only watcher stopped.
C29_Witness ==
    /\ last.op = "enable_watching"
    /\ last.target = 1
    /\ last.ret
    /\ 1 \in DOMAIN targets /\ 2 \in DOMAIN targets
    /\ Len(targets[1]) >= 2
    /\ AllActive(targets, 1)
    /\ Len(targets[2]) = 1
    /\ AllInactive(targets, 2)

\* C30: stop() leaves an inactive watcher as it is, and a disable_watching(T) that
\* directly follows a disable_watching(T) changes nothing and returns what the first
\* returned, all of T's watchers being inactive after either.
C30_StopIdempotent ==
    /\ [](\A t \in DOMAIN targets : \A i \in 1..Len(targets[t]) :
            /\ ~is_active(targets[t][i]) => stop(targets[t][i]) = targets[t][i]
            /\ stop(stop(targets[t][i])) = stop(targets[t][i]))
    /\ [](last.op = "disable_watching" =>
            /\ last.ret <=> last.target \in DOMAIN targets
            /\ last.ret => AllInactive(targets, last.target))
    /\ [][(last'.op = "disable_watching" /\ last'.again) =>
            /\ targets' = targets
            /\ last'.ret = last.ret
            /\ UNCHANGED <<m_cleaning, balance, stack, running, stop_req>>]_vars

\* A second disable_watching in a row has returned true on a target with two
\* watchers, both stopped.
C30_Witness ==
    /\ last.op = "disable_watching"
    /\ last.again
    /\ last.ret
    /\ Len(targets[last.target]) >= 2
    /\ AllInactive(targets, last.target)

\* C31: when release_watching(T) calls on_free(T), T has no entry in the registry and
\* the watchers it held were stopped when they were dropped; a watch_* for T made by
\* the hook outside cleanup, T still having no entry, inserts a new entry with one
\* new watcher and calls on_apply(T).
C31_OnFreeSeesReleased ==
    /\ [](last.op = "release_watching" /\ last.hooks > 0 =>
            /\ stack # <<>>
            /\ Top.f = "on_free"
            /\ Top.target = last.target
            /\ last.target \notin DOMAIN targets
            /\ last.armed = 0)
    /\ [][(IF stack = <<>> THEN FALSE
           ELSE /\ Top.f = "on_free"
                /\ Top.target \notin DOMAIN targets
                /\ ~m_cleaning
                /\ last'.op \in {"watch_timer", "watch_io", "watch_signal"}
                /\ last'.target = Top.target)
          => /\ last'.ret
             /\ ~last'.reused
             /\ last'.target \in DOMAIN targets'
             /\ Len(targets'[last'.target]) = 1
             /\ AllActive(targets', last'.target)
             /\ balance'[last'.target] = balance[last'.target] + 1]_vars

\* The on_free hook of target 1, called by a release outside cleanup, has called
\* watch_timer(1, ...): target 1 is registered again with one armed timer.
C31_Witness ==
    /\ last.op = "watch_timer"
    /\ last.target = 1
    /\ last.ret
    /\ ~last.reused
    /\ ~m_cleaning
    /\ stack # <<>>
    /\ Top.f = "on_free"
    /\ Top.target = 1
    /\ Len(stack) = 1
    /\ Len(targets[1]) = 1
    /\ balance[1] = 1

\* C32: m_cleaning is true at every Cleanup delivery and at every release made by a
\* cleanup() run, and stays true while a cleanup() run is in progress.
C32_CleaningCovers ==
    /\ (last.op = "handler" /\ last.revents = Cleanup) => m_cleaning
    /\ (last.op = "release_watching" /\ last.by = "cleanup") => last.cleaning
    /\ (\E i \in 1..Len(stack) : stack[i].f = "cleanup") => m_cleaning

\* C33: a cleanup() run entered with an empty registry sends no event, releases
\* nothing and returns with the registry empty and m_cleaning false; and over all
\* cleanup runs no registration of a target is sent a second Cleanup event, and with
\* hooks configured a target is registered exactly while one on_apply is unanswered.
C33_CleanupIdempotent ==
    /\ (last.op = "cleanup_return" /\ last.entry_all = {}) =>
          /\ last.sent = Indicator({})
          /\ last.freed = {}
          /\ targets = <<>>
          /\ ~m_cleaning
    /\ last.op = "handler" => ~last.recleaned
    /\ on_target_present =>
          \A t \in Addresses : balance[t] = (IF t \in DOMAIN targets THEN 1 ELSE 0)

\* C34: in the older Dispatcher, whatever the handlers of the Cleanup events did,
\* when cleanup() returns the registry is empty and no watcher of the dispatcher is
\* armed.
C34_OldCleanupEmpties ==
    last.op = "cleanup_return" => (targets = <<>> /\ last.left_armed = {})

\* C35: in the Cython callback EventLoop a setup_* call returns a handle exactly when
\* it recorded it, which it does only for a watcher that is active then; a cancel_*
\* call returns true exactly when the handle was recorded, and then the watcher is
\* stopped and the handle no longer recorded, while a cancel of a handle not recorded
\* changes nothing; and whenever start() returns, _running is 0, the three sets are
\* empty and no watcher is active.
C35_EventLoopTeardown ==
    /\ [][last'.op = "setup" =>
            /\ (last'.got # 0) <=> (last'.handle \in Recorded(ev'))
            /\ (last'.handle \in Recorded(ev')) => ev'.handles[last'.handle].active
            /\ Recorded(ev') \ {last'.handle} = Recorded(ev)]_vars
    /\ [][last'.op = "cancel" =>
            /\ last'.ret <=> (last'.handle \in Recorded(ev))
            /\ last'.ret => /\ ~ev'.handles[last'.handle].active
                            /\ Recorded(ev') = Recorded(ev) \ {last'.handle}
            /\ ~last'.ret => ev' = ev]_vars
    /\ [](last.op = "ev_start_return" =>
            /\ ev.running = 0
            /\ Recorded(ev) = {}
            /\ \A i \in 1..Len(ev.handles) : ~ev.handles[i].active)

\* start() has returned on KeyboardInterrupt while _running was 1 and three handles
\* were recorded, two of them with an active watcher.
C35_Witness ==
    /\ last.op = "ev_start_return"
    /\ last.interrupted
    /\ last.running = 1
    /\ Cardinality(last.recorded) = 3
    /\ Cardinality(last.were_armed) = 2
    /\ ev.stack = <<>>

\* C36: between operations and whenever user code runs, every target in the registry
\* holds at least one watcher, and every watcher of a sequence was created for, and is
\* bound to, the target under whose key the sequence is stored.
C36_EntriesNeverEmpty ==
    \A t \in DOMAIN targets :
        /\ Len(targets[t]) >= 1
        /\ \A i \in 1..Len(targets[t]) : targets[t][i].owner = t

\* release_watching(1) has returned true while target 2 stays registered with two
\* watchers.
C36_Witness ==
    /\ last.op = "release_watching"
    /\ last.target = 1
    /\ last.ret
    /\ last.dropped >= 2
    /\ DOMAIN targets = {2}
    /\ Len(targets[2]) = 2

\* C37: the watchers release_watching drops (also when cleanup() calls it) were
\* stopped before, and when the dispatcher has been destroyed no watcher of the
\* registry destroyed with it was active.
C37_NoArmedDrop ==
    /\ last.op = "release_watching" => last.armed = 0
    /\ destroyed => \A t \in DOMAIN targets : AllInactive(targets, t)

====
